---- MODULE Spec2Model ----
(***************************************************************************)
(* pdfkit-markdown: MarkdownRenderer (src/src/index.ts).                   *)
(*                                                                         *)
(* The renderer walks an mdast tree depth-first and drives a pdfkit        *)
(* document.  The recursion of the handlers is modelled by an explicit     *)
(* call stack: one frame per handler that is inside its for-loop over the  *)
(* children of its node.  One step of the model is either the dispatch of  *)
(* the next child of the innermost handler (the code run before that       *)
(* child's own loop, or the whole handler for a leaf), or the return of    *)
(* the innermost handler (the code after its loop).                        *)
(*                                                                         *)
(* The pdfkit document is outside the repository.  Of it the model keeps   *)
(* the active font, the active font size, the cursor x, and the log `ops`  *)
(* of the calls and cursor assignments the renderer made during the        *)
(* current render call.  The cursor y is changed by pdfkit on every line   *)
(* it sets; the model logs the renderer's own `doc.y += v` as an operation *)
(* and keeps no absolute y.                                                *)
(***************************************************************************)
EXTENDS Integers, Sequences, FiniteSets, TLC

(***************************************************************************)
(* Bounds of the model.                                                    *)
(***************************************************************************)
\* nodes below the root of the tree of the first render call
MaxNodes == 4
\* nodes below the root of the tree of a later render call
MaxNodesAgain == 2
\* children per node of an input tree
MaxWidth == 2
\* render calls made on one renderer
MaxRenders == 2

(***************************************************************************)
(* PdfkitMarkdownSettings: the defaults of the settings field.             *)
(***************************************************************************)
blockQuoteIndent == 7
paragraphGap == 8
listItemGap == 4
listItemIndentOffsetOrdered == 7
listItemIndentOrdered == 14
listItemIndentOffsetUnordered == 7
listItemIndentUnordered == 14
codeFont == "Courier"
normalFont == "Helvetica"
boldItalicFont == "Helvetica-BoldOblique"
boldFont == "Helvetica-Bold"
italicFont == "Helvetica-Oblique"
headerFontName(h) == "Helvetica-Bold"
\* 20 - h * 1.5; the model's headings have even depths, where this is exact
headerFontSize(h) == 20 - (h * 3) \div 2
headerGapBefore(h) == 12
headerGapAfter(h) == 8
fontSize == 10

(***************************************************************************)
(* The pdfkit page the renderer reads: doc.page.margins.left,              *)
(* doc.page.width, doc.page.margins.right (pdfkit's letter page), and      *)
(* doc.widthOfString, here a fixed advance per character.                  *)
(***************************************************************************)
marginsLeft == 72
marginsRight == 72
pageWidth == 612
charWidth == 5
widthOfString(str) == Len(str) * charWidth

(***************************************************************************)
(* mdast nodes.  Every node is a record of the same shape; the fields a    *)
(* kind does not have keep their default.  An optional value (list.start,  *)
(* the link field) is the empty sequence for null and <<v>> for v.         *)
(***************************************************************************)
Node(type) ==
    [type |-> type, depth |-> 0, ordered |-> FALSE, start |-> <<>>,
     value |-> <<>>, url |-> "", children |-> <<>>]

TextValue == <<"a", " ", "\n", " ", "b">>
CodeValue == <<"c", " ", " ", "d">>
LinkUrl == "http://x"
HeadingDepths == {2}
\* list.start: absent, 0, and a positive start
ListStarts == {<<>>, <<0>>, <<5>>}

\* the leaves of a content class: flow (block), phrasing (inline), item, row
LeafNodes(class) ==
    CASE class = "flow" ->
           { Node("thematicBreak"), [Node("code") EXCEPT !.value = CodeValue] }
      [] class = "phrasing" ->
           { [Node("text") EXCEPT !.value = TextValue],
             [Node("inlineCode") EXCEPT !.value = CodeValue],
             Node("break"), Node("image") }
      [] class = "row" -> { Node("tableRow") }
      [] OTHER -> {}

\* the nodes of a content class that have children, without their children
ParentNodes(class) ==
    CASE class = "flow" ->
           { Node("blockquote"), Node("paragraph"), Node("table"), Node("list") }
           \cup { [Node("heading") EXCEPT !.depth = d] : d \in HeadingDepths }
           \cup { [Node("list") EXCEPT !.ordered = TRUE, !.start = s] : s \in ListStarts }
      [] class = "phrasing" ->
           { Node("strong"), Node("emphasis"), Node("delete"),
             [Node("link") EXCEPT !.url = LinkUrl] }
      [] class = "item" -> { Node("listItem") }
      [] OTHER -> {}

\* the content class of the children of a node, as mdast types them
ChildClass(type) ==
    CASE type \in {"root", "blockquote", "listItem"} -> "flow"
      [] type = "list" -> "item"
      [] type = "table" -> "row"
      [] OTHER -> "phrasing"

RECURSIVE TreesOf(_, _), ForestsOf(_, _, _)
\* the nodes of a class whose subtree has exactly n nodes
TreesOf(class, n) ==
    IF n < 1 THEN {}
    ELSE (IF n = 1 THEN LeafNodes(class) ELSE {})
         \cup { [pf[1] EXCEPT !.children = pf[2]] :
                  pf \in UNION { { q \in ParentNodes(class) : ChildClass(q.type) = c }
                                 \X ForestsOf(c, n - 1, MaxWidth) :
                                 c \in { ChildClass(q.type) : q \in ParentNodes(class) } } }
\* the sequences of at most w nodes of a class with n nodes in all
ForestsOf(class, n, w) ==
    IF n = 0 THEN { <<>> }
    ELSE IF w = 0 THEN {}
    ELSE { <<af[1]>> \o af[2] :
             af \in UNION { TreesOf(class, k) \X ForestsOf(class, n - k, w - 1) :
                            k \in 1..n } }

\* MDAST.Root with at most max nodes below it
TreesUpTo(max) ==
    { [Node("root") EXCEPT !.children = f] :
        f \in UNION { ForestsOf("flow", n, MaxWidth) : n \in 0..max } }

\* the input trees of the first call and of a later call on the same renderer
Trees == TreesUpTo(MaxNodes)
TreesAgain == TreesUpTo(MaxNodesAgain)

(***************************************************************************)
(* State.                                                                  *)
(***************************************************************************)
VARIABLES
    throwOnUnsupported, \* settings.throwOnUnsupported, fixed at construction
    tree,               \* the argument of the current (or last) render call
    stack,              \* the handlers inside their loop, innermost last
    listIndent, bold, italic, link, strike, blockquoteIndex, \* private fields
    font, size, x,      \* the document's active font, font size and cursor x
    ops,                \* what the current render call did to the document
    status,             \* "idle", "running", "done" or "failed" (render threw)
    error,              \* the message of the Error render threw
    renders             \* render calls made so far

vars == <<throwOnUnsupported, tree, stack, listIndent, bold, italic, link, strike,
          blockquoteIndex, font, size, x, ops, status, error, renders>>

\* The renderer and its document as one record, so that a handler is an
\* operator from the state it is entered in to the state it leaves.
Cur ==
    [stack |-> stack, listIndent |-> listIndent, bold |-> bold, italic |-> italic,
     link |-> link, strike |-> strike, blockquoteIndex |-> blockquoteIndex,
     font |-> font, size |-> size, x |-> x, ops |-> ops, status |-> status,
     error |-> error]

Becomes(s) ==
    /\ stack' = s.stack
    /\ listIndent' = s.listIndent
    /\ bold' = s.bold
    /\ italic' = s.italic
    /\ link' = s.link
    /\ strike' = s.strike
    /\ blockquoteIndex' = s.blockquoteIndex
    /\ font' = s.font
    /\ size' = s.size
    /\ x' = s.x
    /\ ops' = s.ops
    /\ status' = s.status
    /\ error' = s.error

\* the StyleContext: the six private fields
Ctx(s) ==
    [bold |-> s.bold, italic |-> s.italic, strike |-> s.strike, link |-> s.link,
     listIndent |-> s.listIndent, blockquoteIndex |-> s.blockquoteIndex]

\* the field initialisers of the class
FreshCtx ==
    [bold |-> FALSE, italic |-> FALSE, strike |-> FALSE, link |-> <<>>,
     listIndent |-> 0, blockquoteIndex |-> 0]

(***************************************************************************)
(* The document (pdfkit), as far as the renderer drives it.                *)
(***************************************************************************)
Emit(s, op) == [s EXCEPT !.ops = Append(@, op)]

docFont(s, name) == [Emit(s, <<"font", name>>) EXCEPT !.font = name]

docFontSize(s, n) == [Emit(s, <<"fontSize", n>>) EXCEPT !.size = n]

\* doc.text(str, options): the cursor x is back at the start of the line
\* once pdfkit has set the text
docText(s, str, options) == Emit(s, <<"text", str, options>>)

\* doc.text(str, x, undefined, options): pdfkit moves the cursor to x first
docTextAt(s, str, atX, options) ==
    [Emit(s, <<"text", str, options>>) EXCEPT !.x = atX]

\* doc.x = v
docSetX(s, v) == [Emit(s, <<"x", v>>) EXCEPT !.x = v]

\* doc.y += v
docAddY(s, v) == Emit(s, <<"y+=", v>>)

(***************************************************************************)
(* The call stack.                                                         *)
(***************************************************************************)
Top(s) == s.stack[Len(s.stack)]

\* the child the innermost loop is at
HasChild(s) == Top(s).idx <= Len(Top(s).node.children)
Child(s) == Top(s).node.children[Top(s).idx]

\* A handler reaches its loop: `entry` remembers the StyleContext the
\* handler was called in (it is no field of the program).
Enter(s, handler, node, entry) ==
    [s EXCEPT !.stack = Append(@, [handler |-> handler, node |-> node, idx |-> 1,
                                    i |-> 0, entry |-> entry])]

\* the innermost loop moves to its next child
Advance(s) == [s EXCEPT !.stack[Len(s.stack)].idx = @ + 1]

\* the innermost handler returns to the loop that called it
Leave(s) ==
    LET t == [s EXCEPT !.stack = SubSeq(@, 1, Len(@) - 1)]
    IN  IF t.stack = <<>> THEN [t EXCEPT !.status = "done"] ELSE Advance(t)

(***************************************************************************)
(* The handlers.  A handler of a node with children is two operators: the  *)
(* code before its loop (named as the method) and the code after it        *)
(* (named ...Return).                                                      *)
(***************************************************************************)
updateFont(s) ==
    IF s.bold /\ s.italic THEN docFont(s, boldItalicFont)
    ELSE IF s.bold THEN docFont(s, boldFont)
    ELSE IF s.italic THEN docFont(s, italicFont)
    ELSE docFont(s, normalFont)

handleBlockquote(s, child) ==
    LET a == [s EXCEPT !.blockquoteIndex = @ + 1]
        b == docSetX(a, marginsLeft + a.blockquoteIndex * blockQuoteIndent)
    IN  Enter(b, "blockquote", child, Ctx(s))

handleBlockquoteReturn(s) ==
    LET a == [s EXCEPT !.blockquoteIndex = @ - 1]
    IN  Leave(docSetX(a, marginsLeft + a.blockquoteIndex * blockQuoteIndent))

handleDelete(s, child) == Enter([s EXCEPT !.strike = TRUE], "delete", child, Ctx(s))

handleDeleteReturn(s) == Leave([s EXCEPT !.strike = FALSE])

handleBreak(s, child) == Advance(docText(s, <<"\n">>, [paragraphGap |-> 0]))

handleInlineCode(s, code) ==
    LET a == docFont(s, codeFont)
        b == docText(a, code.value, [continued |-> TRUE])
    IN  Advance(updateFont(b))

handleCode(s, code) ==
    LET a == docFont(s, codeFont)
        b == Emit(a, <<"text", code.value>>)
    IN  Advance(updateFont(b))

handleLink(s, child) == Enter([s EXCEPT !.link = <<child.url>>], "link", child, Ctx(s))

handleLinkReturn(s) == Leave([s EXCEPT !.link = <<>>])

handleHeading(s, heading) ==
    LET a == docAddY(s, headerGapBefore(heading.depth))
        b == docFont(a, headerFontName(heading.depth))
        c == docFontSize(b, headerFontSize(heading.depth))
    IN  Enter(c, "heading", heading, Ctx(s))

handleHeadingReturn(s) ==
    LET a == Emit(s, <<"text", <<"\n">> >>)
        b == updateFont(a)
        c == docFontSize(b, fontSize)
    IN  Leave(docAddY(c, headerGapAfter(Top(s).node.depth)))

\* list.start || 1: null and 0 are both falsy
FirstNumber(list) ==
    IF list.start = <<>> \/ list.start[1] = 0 THEN 1 ELSE list.start[1]

\* listIndent++, and `let i = list.start || 1` of the ordered branch
handleList(s, list) ==
    LET a == Enter([s EXCEPT !.listIndent = @ + 1], "list", list, Ctx(s))
    IN  IF list.ordered
        THEN [a EXCEPT !.stack[Len(a.stack)].i = FirstNumber(list)]
        ELSE a

handleListReturn(s) ==
    LET a == [s EXCEPT !.listIndent = @ - 1]
    IN  IF a.listIndent = 0
        THEN Leave(docAddY(a, paragraphGap - listItemGap))
        ELSE Leave(a)

Max(a, b) == IF a >= b THEN a ELSE b

\* i + suffix, as a sequence of strings
Numeral(i, suffix) == <<ToString(i)>> \o suffix

handleListItemOrdered(s, item, i) ==
    LET indent == marginsLeft + (s.listIndent - 1) * listItemIndentOrdered
                  + listItemIndentOffsetOrdered
        a == docTextAt(s, Numeral(i, <<".">>), indent, [continued |-> TRUE])
        b == docText(a, <<>>, [lineBreak |-> FALSE])
        minIndent == widthOfString(Numeral(i, <<".", " ">>))
        c == docSetX(b, Max(indent + minIndent, indent + listItemIndentOrdered))
    IN  Enter(c, "listItemOrdered", item, Ctx(s))

handleListItemOrderedReturn(s) == Leave(docSetX(s, marginsLeft))

handleListItem(s, item) ==
    LET indent == marginsLeft + (s.listIndent - 1) * listItemIndentUnordered
                  + listItemIndentOffsetUnordered
        a == docSetX(s, indent + listItemIndentUnordered)
        b == docText(a, <<>>, [continued |-> TRUE])
        c == Emit(Emit(b, <<"circle", indent + 1, 1>>), <<"fill", "black">>)
    IN  Enter(c, "listItem", item, Ctx(s))

handleListItemReturn(s) == Leave(docSetX(s, marginsLeft))

\* the loop of handleList: handleListItemOrdered(item, i++) or handleListItem(item)
handleListChild(s, item) ==
    IF Top(s).node.ordered
    THEN handleListItemOrdered([s EXCEPT !.stack[Len(s.stack)].i = @ + 1],
                               item, Top(s).i)
    ELSE handleListItem(s, item)

handleItalic(s, node) ==
    Enter(updateFont([s EXCEPT !.italic = TRUE]), "emphasis", node, Ctx(s))

handleItalicReturn(s) == Leave(updateFont([s EXCEPT !.italic = FALSE]))

handleBold(s, node) ==
    Enter(updateFont([s EXCEPT !.bold = TRUE]), "strong", node, Ctx(s))

handleBoldReturn(s) == Leave(updateFont([s EXCEPT !.bold = FALSE]))

handleParagraph(s, node) == Enter(s, "paragraph", node, Ctx(s))

handleParagraphReturn(s) ==
    Leave(docText(s, <<"\n">>,
                  [paragraphGap |-> IF s.listIndent > 0 THEN listItemGap
                                                         ELSE paragraphGap]))

\* /[\s\r\n]+/
IsSpace(c) == c \in {" ", "\n", "\r", "\t"}

RECURSIVE CollapseSpace(_)
\* value.replace(/[\s\r\n]+/g, " ")
CollapseSpace(value) ==
    IF value = <<>> THEN <<>>
    ELSE IF ~IsSpace(Head(value)) THEN <<Head(value)>> \o CollapseSpace(Tail(value))
    ELSE IF Len(value) > 1 /\ IsSpace(value[2]) THEN CollapseSpace(Tail(value))
    ELSE <<" ">> \o CollapseSpace(Tail(value))

handleText(s, text) ==
    Advance(docText(s, CollapseSpace(text.value),
                    [continued |-> TRUE, link |-> s.link,
                     underline |-> (s.link # <<>> /\ s.link[1] # ""),
                     strike |-> s.strike]))

\* case "thematicBreak" of handleChild
thematicBreak(s) ==
    LET a == Emit(s, <<"moveTo", marginsLeft>>)
        b == Emit(a, <<"lineTo", pageWidth - marginsRight>>)
        c == Emit(b, <<"stroke", "black">>)
    IN  Advance(docText(c, <<"\n">>, [paragraphGap |-> 0]))

\* Variants of the default case, each a slip the claims below must notice.
\* The throw is missing: an unsupported node is ignored under either policy.
unsupportedNeverThrows(s, child) == Advance(s)

\* An ignored node is rendered as a paragraph of its children.
unsupportedAsParagraph(s, child) ==
    IF throwOnUnsupported
    THEN [s EXCEPT !.status = "failed",
                   !.error = <<"Unsupported markdown feature ", child.type>>,
                   !.stack = <<>>]
    ELSE Enter(s, "paragraph", child, Ctx(s))

\* An ignored node selects the font again, as the code cases do.
unsupportedUpdatesFont(s, child) ==
    IF throwOnUnsupported
    THEN [s EXCEPT !.status = "failed",
                   !.error = <<"Unsupported markdown feature ", child.type>>,
                   !.stack = <<>>]
    ELSE Advance(updateFont(s))

\* default of handleChild: the Error leaves render through every handler
\* on the stack, none of which catches it
unsupported(s, child) ==
    IF throwOnUnsupported
    THEN [s EXCEPT !.status = "failed",
                   !.error = <<"Unsupported markdown feature ", child.type>>,
                   !.stack = <<>>]
    ELSE Advance(s)

\* the case labels of handleChild
Supported ==
    {"blockquote", "heading", "link", "paragraph", "text", "break", "strong",
     "emphasis", "list", "delete", "thematicBreak", "code", "inlineCode"}

handleChild(s, child) ==
    CASE child.type = "blockquote" -> handleBlockquote(s, child)
      [] child.type = "heading" -> handleHeading(s, child)
      [] child.type = "link" -> handleLink(s, child)
      [] child.type = "paragraph" -> handleParagraph(s, child)
      [] child.type = "text" -> handleText(s, child)
      [] child.type = "break" -> handleBreak(s, child)
      [] child.type = "strong" -> handleBold(s, child)
      [] child.type = "emphasis" -> handleItalic(s, child)
      [] child.type = "list" -> handleList(s, child)
      [] child.type = "delete" -> handleDelete(s, child)
      [] child.type = "thematicBreak" -> thematicBreak(s)
      [] child.type = "code" -> handleCode(s, child)
      [] child.type = "inlineCode" -> handleInlineCode(s, child)
      [] OTHER -> unsupported(s, child)

\* render(tree), up to its loop; `ops` starts the log of this call
render(s, root) ==
    LET a == [s EXCEPT !.status = "running", !.ops = <<>>, !.error = <<>>]
        b == docFontSize(a, fontSize)
    IN  Enter(updateFont(b), "render", root, Ctx(s))

\* render's loop is over: render returns
renderReturn(s) == Leave(s)

\* the code after the loop of the innermost handler
return(s) ==
    CASE Top(s).handler = "render" -> renderReturn(s)
      [] Top(s).handler = "blockquote" -> handleBlockquoteReturn(s)
      [] Top(s).handler = "heading" -> handleHeadingReturn(s)
      [] Top(s).handler = "link" -> handleLinkReturn(s)
      [] Top(s).handler = "paragraph" -> handleParagraphReturn(s)
      [] Top(s).handler = "strong" -> handleBoldReturn(s)
      [] Top(s).handler = "emphasis" -> handleItalicReturn(s)
      [] Top(s).handler = "list" -> handleListReturn(s)
      [] Top(s).handler = "listItemOrdered" -> handleListItemOrderedReturn(s)
      [] Top(s).handler = "listItem" -> handleListItemReturn(s)
      [] Top(s).handler = "delete" -> handleDeleteReturn(s)

\* one step of a running render call
Step(s) ==
    IF ~HasChild(s) THEN return(s)
    ELSE IF Top(s).handler = "list" THEN handleListChild(s, Child(s))
    ELSE handleChild(s, Child(s))

RECURSIVE Run(_)
\* a render call from state s to its end
Run(s) == IF s.status = "running" THEN Run(Step(s)) ELSE s

(***************************************************************************)
(* The state machine.                                                      *)
(***************************************************************************)
\* new MarkdownRenderer(doc, settings) on a new PDFDocument
Init ==
    /\ throwOnUnsupported \in BOOLEAN
    /\ tree = Node("root")
    /\ stack = <<>>
    /\ listIndent = 0
    /\ bold = FALSE
    /\ italic = FALSE
    /\ link = <<>>
    /\ strike = FALSE
    /\ blockquoteIndex = 0
    /\ font = "Helvetica"
    /\ size = 12
    /\ x = marginsLeft
    /\ ops = <<>>
    /\ status = "idle"
    /\ error = <<>>
    /\ renders = 0

Running == status = "running"

\* the caller calls render(t), also after a call that threw
Render ==
    /\ ~Running
    /\ renders < MaxRenders
    /\ \E t \in (IF renders = 0 THEN Trees ELSE TreesAgain) :
          /\ tree' = t
          /\ Becomes(render(Cur, t))
    /\ renders' = renders + 1
    /\ UNCHANGED throwOnUnsupported

\* the innermost loop, not that of handleList, is at a child of the given types
AtChild(types) ==
    /\ Running
    /\ HasChild(Cur)
    /\ Top(Cur).handler # "list"
    /\ Child(Cur).type \in types

\* the loop calls handleChild on the child it is at
Dispatch ==
    /\ Becomes(handleChild(Cur, Child(Cur)))
    /\ UNCHANGED <<throwOnUnsupported, tree, renders>>

DispatchBlockquote == AtChild({"blockquote"}) /\ Dispatch
DispatchHeading == AtChild({"heading"}) /\ Dispatch
DispatchLink == AtChild({"link"}) /\ Dispatch
DispatchParagraph == AtChild({"paragraph"}) /\ Dispatch
DispatchText == AtChild({"text"}) /\ Dispatch
DispatchBreak == AtChild({"break"}) /\ Dispatch
DispatchStrong == AtChild({"strong"}) /\ Dispatch
DispatchEmphasis == AtChild({"emphasis"}) /\ Dispatch
DispatchList == AtChild({"list"}) /\ Dispatch
DispatchDelete == AtChild({"delete"}) /\ Dispatch
DispatchThematicBreak == AtChild({"thematicBreak"}) /\ Dispatch
DispatchCode == AtChild({"code"}) /\ Dispatch
DispatchInlineCode == AtChild({"inlineCode"}) /\ Dispatch

\* the kinds of the input trees that handleChild has no case for
Unsupported == {"table", "tableRow", "image", "listItem", "root"}

SkipUnsupported == ~throwOnUnsupported /\ AtChild(Unsupported) /\ Dispatch
ThrowUnsupported == throwOnUnsupported /\ AtChild(Unsupported) /\ Dispatch

\* the loop of handleList is at an item
AtItem(ordered) ==
    /\ Running
    /\ HasChild(Cur)
    /\ Top(Cur).handler = "list"
    /\ Top(Cur).node.ordered = ordered

\* the loop of handleList calls the item handler of its branch
CallListItem ==
    /\ Becomes(handleListChild(Cur, Child(Cur)))
    /\ UNCHANGED <<throwOnUnsupported, tree, renders>>

CallListItemOrdered == AtItem(TRUE) /\ CallListItem
CallListItemUnordered == AtItem(FALSE) /\ CallListItem

\* the loop of the innermost handler, of the given kind, is over
AtEnd(handler) ==
    /\ Running
    /\ ~HasChild(Cur)
    /\ Top(Cur).handler = handler

\* the innermost handler runs the code after its loop and returns
Return ==
    /\ Becomes(return(Cur))
    /\ UNCHANGED <<throwOnUnsupported, tree, renders>>

ReturnRender == AtEnd("render") /\ Return
ReturnBlockquote == AtEnd("blockquote") /\ Return
ReturnHeading == AtEnd("heading") /\ Return
ReturnLink == AtEnd("link") /\ Return
ReturnParagraph == AtEnd("paragraph") /\ Return
ReturnStrong == AtEnd("strong") /\ Return
ReturnEmphasis == AtEnd("emphasis") /\ Return
ReturnList == AtEnd("list") /\ Return
ReturnListItemOrdered == AtEnd("listItemOrdered") /\ Return
ReturnListItem == AtEnd("listItem") /\ Return
ReturnDelete == AtEnd("delete") /\ Return

Next ==
    \/ Render
    \/ DispatchBlockquote \/ DispatchHeading \/ DispatchLink \/ DispatchParagraph
    \/ DispatchText \/ DispatchBreak \/ DispatchStrong \/ DispatchEmphasis
    \/ DispatchList \/ DispatchDelete \/ DispatchThematicBreak \/ DispatchCode
    \/ DispatchInlineCode \/ SkipUnsupported \/ ThrowUnsupported
    \/ CallListItemOrdered \/ CallListItemUnordered
    \/ ReturnRender \/ ReturnBlockquote \/ ReturnHeading \/ ReturnLink
    \/ ReturnParagraph \/ ReturnStrong \/ ReturnEmphasis \/ ReturnList
    \/ ReturnListItemOrdered \/ ReturnListItem \/ ReturnDelete

Spec == Init /\ [][Next]_vars

(***************************************************************************)
(* What the claims speak of.                                               *)
(***************************************************************************)
CtxNow == Ctx(Cur)

\* the closed set of node kinds of the tree: those handleChild has a case
\* for, the list items handleList handles itself, and the root
ClosedSet == Supported \cup {"listItem", "root"}

RECURSIVE Preorder(_), PreorderAll(_)
\* the kinds of a subtree in document order: depth-first, pre-order
Preorder(node) == <<node.type>> \o PreorderAll(node.children)
PreorderAll(nodes) ==
    IF nodes = <<>> THEN <<>> ELSE Preorder(Head(nodes)) \o PreorderAll(Tail(nodes))

\* the kinds of the nodes below the root of the tree being rendered
DocumentOrder == PreorderAll(tree.children)

\* the position in a sequence of kinds of the first outside the closed set, or 0
FirstOutOfSet(kinds) ==
    IF \E k \in 1..Len(kinds) : kinds[k] \notin ClosedSet
    THEN CHOOSE k \in 1..Len(kinds) :
            /\ kinds[k] \notin ClosedSet
            /\ \A j \in 1..(k - 1) : kinds[j] \in ClosedSet
    ELSE 0

RECURSIVE SizeAll(_)
\* the number of nodes of a sequence of subtrees
SizeAll(nodes) ==
    IF nodes = <<>> THEN 0
    ELSE 1 + SizeAll(Head(nodes).children) + SizeAll(Tail(nodes))

RECURSIVE Before(_)
\* the number of nodes that precede, in document order, the child the
\* innermost loop of the given stack is at
Before(frames) ==
    IF frames = <<>> THEN 0
    ELSE LET f == frames[Len(frames)]
         IN  Before(SubSeq(frames, 1, Len(frames) - 1))
             + (IF f.handler = "render" THEN 0 ELSE 1)
             + SizeAll(SubSeq(f.node.children, 1, f.idx - 1))

RECURSIVE Prune(_), PruneAll(_, _)
\* a tree without the nodes that handleChild has no case for, and their subtrees
Prune(node) == [node EXCEPT !.children = PruneAll(node.children, node.type = "list")]
PruneAll(nodes, items) ==
    IF nodes = <<>> THEN <<>>
    ELSE IF items \/ Head(nodes).type \in Supported
         THEN <<Prune(Head(nodes))>> \o PruneAll(Tail(nodes), items)
         ELSE PruneAll(Tail(nodes), items)

\* the renderer and its document before the first render call
Fresh ==
    [stack |-> <<>>, listIndent |-> 0, bold |-> FALSE, italic |-> FALSE,
     link |-> <<>>, strike |-> FALSE, blockquoteIndex |-> 0, font |-> "Helvetica",
     size |-> 12, x |-> marginsLeft, ops |-> <<>>, status |-> "idle", error |-> <<>>]

\* the frames of the handlers of a kind that are active
Active(handler) == { k \in 1..Len(stack) : stack[k].handler = handler }

\* a handler is about to return / the innermost loop is about to dispatch
Returning == Running /\ ~HasChild(Cur)
Dispatching == Running /\ HasChild(Cur)

\* the operations a step appended to the log
Appended == SubSeq(ops', Len(ops) + 1, Len(ops'))

(***************************************************************************)
(* C1.  When the handler of a node returns normally, the StyleContext      *)
(* (bold, italic, strike, link, list depth, quote depth) equals its value  *)
(* at the moment the handler was entered, however the subtree nests.       *)
(* A handler with a loop returns in a return step; the handler of a leaf   *)
(* is the whole of its dispatch step.                                      *)
(***************************************************************************)
C1_ContextRestored ==
    [][ /\ Returning => CtxNow' = Top(Cur).entry
        /\ (Dispatching /\ status' = "running" /\ Len(stack') = Len(stack))
              => CtxNow' = CtxNow ]_vars

(***************************************************************************)
(* C2.  With throwOnUnsupported, render fails at the first node in         *)
(* document order whose kind is outside the closed set: the step that      *)
(* fails is at that node, the error names its kind, the step emits         *)
(* nothing, no handler is left to run, and after it only a new render call *)
(* acts; a call that completes met no such node.                           *)
(***************************************************************************)
C2_FailsAtFirstUnsupported ==
    [][ /\ (Running /\ status' = "failed") =>
              /\ throwOnUnsupported
              /\ FirstOutOfSet(DocumentOrder) = Before(stack) + 1
              /\ error' = <<"Unsupported markdown feature ",
                            DocumentOrder[Before(stack) + 1]>>
              /\ ops' = ops
              /\ stack' = <<>>
        /\ (Running /\ status' = "done" /\ throwOnUnsupported) =>
              FirstOutOfSet(DocumentOrder) = 0
        /\ status = "failed" => renders' = renders + 1 ]_vars

\* a call failed after it had emitted operations of nodes before the
\* failing one, and the tree goes on after the failing node
C2_Witness ==
    /\ status = "failed"
    /\ Len(ops) > 2
    /\ FirstOutOfSet(DocumentOrder) < Len(DocumentOrder)
    /\ DocumentOrder[Len(DocumentOrder)] \in Supported

(***************************************************************************)
(* C3.  A tree whose nodes below the root are all of kinds outside the     *)
(* closed set, rendered with throwOnUnsupported = false, completes.        *)
(***************************************************************************)
AllOutOfSet ==
    /\ tree.children # <<>>
    /\ \A k \in 1..Len(DocumentOrder) : DocumentOrder[k] \notin ClosedSet

\* C3 as claimed: render then emits zero operations
C3_ZeroOperations ==
    (status = "done" /\ ~throwOnUnsupported /\ AllOutOfSet) => ops = <<>>

\* C3 as amended: render then emits nothing but the two selections it makes
\* before its loop, the base font size and the normal font
C3_OnlyBaseline ==
    (~throwOnUnsupported /\ AllOutOfSet) =>
        /\ status # "failed"
        /\ status = "done" => ops = << <<"fontSize", fontSize>>, <<"font", normalFont>> >>

C3_Witness ==
    /\ status = "done"
    /\ ~throwOnUnsupported
    /\ AllOutOfSet
    /\ Len(tree.children) > 1
    /\ tree.children[1].children # <<>>

(***************************************************************************)
(* C4.  An ordered list with declared start s (any integer, 0 included)    *)
(* labels its items "s.", "s+1.", ... in document order; without a         *)
(* declared start the labels begin at "1.".  The step that calls the       *)
(* handler of item number idx emits the label first.                       *)
(***************************************************************************)
DeclaredStart(list) == IF list.start = <<>> THEN 1 ELSE list.start[1]

C4_NumeralLabels ==
    [][ (Dispatching /\ Top(Cur).handler = "list" /\ Top(Cur).node.ordered) =>
            /\ Len(ops') > Len(ops)
            /\ ops'[Len(ops) + 1] =
                  <<"text",
                    Numeral(DeclaredStart(Top(Cur).node) + Top(Cur).idx - 1, <<".">>),
                    [continued |-> TRUE]>> ]_vars

(***************************************************************************)
(* C5.  Whenever a child of a blockquote nested to depth d starts being    *)
(* dispatched, the cursor x is marginsLeft + d * blockQuoteIndent; right   *)
(* after the outermost blockquote returns it is marginsLeft.  Stated for   *)
(* the first render call of a renderer.                                    *)
(***************************************************************************)
QuoteDepth == Cardinality(Active("blockquote"))

C5_QuoteIndent ==
    [][ renders = 1 =>
          /\ (Dispatching /\ Top(Cur).handler = "blockquote")
                => x = marginsLeft + QuoteDepth * blockQuoteIndent
          /\ (Returning /\ Top(Cur).handler = "blockquote" /\ QuoteDepth = 1)
                => x' = marginsLeft ]_vars

(***************************************************************************)
(* C6.  paragraphGap - listItemGap is added to the cursor y exactly when   *)
(* an outermost list closes, whereupon the list counter is 0 again, and    *)
(* never when a list inside a list closes.                                 *)
(***************************************************************************)
ListGap == <<"y+=", paragraphGap - listItemGap>>

ListGapAdded ==
    \E k \in 1..Len(Appended) : Appended[k] = ListGap

OutermostListCloses ==
    Returning /\ Top(Cur).handler = "list" /\ Cardinality(Active("list")) = 1

C6_ListGapOncePerOuterList ==
    [][ /\ status' = "running" => (ListGapAdded <=> OutermostListCloses)
        /\ OutermostListCloses => listIndent' = 0 ]_vars

(***************************************************************************)
(* C7.  After the dispatch of a top-level child of the root has returned,  *)
(* the active font is normalFont and the active size is fontSize.          *)
(***************************************************************************)
C7_BaselineFontBetweenBlocks ==
    (Running /\ Len(stack) = 1 /\ Top(Cur).idx > 1) =>
        (font = normalFont /\ size = fontSize)

(***************************************************************************)
(* C8.  Every render call on a renderer starts with the StyleContext of a  *)
(* new renderer, also a call that follows one that threw.                  *)
(***************************************************************************)
C8_FreshContextPerRender ==
    Running => stack[1].entry = FreshCtx

(***************************************************************************)
(* C9.  With throwOnUnsupported = false a render call does to the          *)
(* document, and leaves the renderer in, exactly what the call does for    *)
(* the same tree without its unsupported nodes and their subtrees.         *)
(***************************************************************************)
C9_SkipEqualsPruned ==
    (status = "done" /\ ~throwOnUnsupported) =>
        Cur = Run(render(Fresh, Prune(tree)))

\* an unsupported node with a subtree of its own was skipped and a
\* supported sibling after it was rendered
C9_Witness ==
    /\ status = "done"
    /\ ~throwOnUnsupported
    /\ Len(tree.children) = 2
    /\ tree.children[1].type = "table"
    /\ tree.children[1].children # <<>>
    /\ tree.children[2].type \in Supported
    /\ Len(ops) > 2

(***************************************************************************)
(* C10.  While a heading of depth k is handled, every text node below it   *)
(* is emitted with headerFontName(k) as the active font.                   *)
(***************************************************************************)
C10_HeadingFontForText ==
    (Dispatching /\ Child(Cur).type = "text") =>
        \A k \in Active("heading") : font = headerFontName(stack[k].node.depth)

====
